---- MODULE Spec2Model ----
(***************************************************************************)
(* Verification model of intellimed's claim validator                      *)
(* (src/src/validate.py, class ValidationDict).                            *)
(*                                                                         *)
(* Text is a sequence of one-character strings.  A confidence is an exact  *)
(* fraction <<num, den>> in lowest terms (the float the code computes is   *)
(* a quotient of two small multiples of 0.25, so two floats are equal      *)
(* exactly when the fractions are).  A threshold is a fraction too.        *)
(***************************************************************************)
EXTENDS Integers, Sequences, FiniteSets, TLC

VARIABLES
    plaintext,      \* self.plaintext
    base_results,   \* self.base_results: the decoded JSON of the extractor
    self,           \* the dict itself: subject -> verdict -> ordered dict
    match_counts,   \* self.match_counts: subject -> verdict -> int
    threshold,      \* the threshold argument of the last validate call
    outcome,        \* how the last validate call ended
    calls,          \* number of validate calls made on this container
    scorer,         \* the scoring step of _score_item applied to run lists:
                    \* [n, last, before], the token count and its last two results
    preprocessor,   \* the Preprocessor's fields: [page_count, trim_start,
                    \* trim_end, split_indices, keep_original]
    disk,           \* [original, saved]: whether file_in exists, and the
                    \* documents saved so far, in order
    retry,          \* the closure of retry(max_retries=k): [max_retries, attempts]
    wrapper         \* calls of the wrapped function: [active, tries, finished],
                    \* the call in progress, the times it has run the function,
                    \* and [tries, result] of every finished call, in order

vars == <<plaintext, base_results, self, match_counts, threshold, outcome, calls,
          scorer, preprocessor, disk, retry, wrapper>>

-----------------------------------------------------------------------------
(* Bounds of the model                                                     *)

MaxItems == 2       \* longest claim list of a category (Spec)
MaxCalls == 2       \* validate calls on one container (Spec)
MaxClaimLen == 3    \* longest claim string, in characters (SpecScore)
MaxSrcLen == 3      \* longest source text, in characters (SpecScore)
MaxTokens == 4      \* most tokens of a claim (SpecRuns)
MaxPages == 3       \* most pages of the input document (SpecTrim)
MaxSplits == 1      \* most split indices (SpecTrim)
MaxRetries == 3     \* largest max_retries (SpecRetry)
MaxWrapperCalls == 3    \* most calls of the wrapped function (SpecRetry)

-----------------------------------------------------------------------------
(* Characters and strings                                                  *)

\* the characters that \w matches, among the characters of the model
Digits == <<"0", "1", "2", "3", "4", "5", "6", "7", "8", "9">>
WordChars == {"a", "b", "c", "A", "B"} \cup {Digits[k] : k \in 1..Len(Digits)}

\* str.lower() on one character
LowerChar(ch) ==
    CASE ch = "A" -> "a"
      [] ch = "B" -> "b"
      [] OTHER -> ch

\* str.lower()
Lower(s) == [i \in 1..Len(s) |-> LowerChar(s[i])]

\* re.compile(r"\w+").findall(s): the maximal runs of word characters of s,
\* left to right.  cur is the run being read.
RECURSIVE FindAllFrom(_, _, _)
FindAllFrom(s, k, cur) ==
    IF k > Len(s)
    THEN IF cur = <<>> THEN <<>> ELSE <<cur>>
    ELSE IF s[k] \in WordChars
         THEN FindAllFrom(s, k + 1, Append(cur, s[k]))
         ELSE IF cur = <<>>
              THEN FindAllFrom(s, k + 1, <<>>)
              ELSE <<cur>> \o FindAllFrom(s, k + 1, <<>>)

FindAll(s) == FindAllFrom(s, 1, <<>>)

\* " ".join(ws)
RECURSIVE Join(_)
Join(ws) ==
    IF ws = <<>> THEN <<>>
    ELSE IF Len(ws) = 1 THEN ws[1]
    ELSE ws[1] \o <<" ">> \o Join(Tail(ws))

\* phrase in text, but only where it is not inside a longer word
ContainsAtWordBoundaries(text, phrase) ==
    \E k \in 0..(Len(text) - Len(phrase)) :
        /\ SubSeq(text, k + 1, k + Len(phrase)) = phrase
        /\ k >= 1 => text[k] \notin WordChars
        /\ k + Len(phrase) < Len(text) => text[k + Len(phrase) + 1] \notin WordChars

\* phrase in text (str.__contains__)
Contains(text, phrase) ==
    \E k \in 0..(Len(text) - Len(phrase)) :
        SubSeq(text, k + 1, k + Len(phrase)) = phrase

-----------------------------------------------------------------------------
(* Fractions                                                               *)

RECURSIVE GCD(_, _)
GCD(x, y) == IF y = 0 THEN x ELSE GCD(y, x % y)

\* the fraction x/y (x >= 0, y > 0) in lowest terms
Frac(x, y) == LET g == GCD(x, y) IN <<x \div g, y \div g>>

\* p >= q for fractions with positive denominators
FracGeq(p, q) == p[1] * q[2] >= q[1] * p[2]

Zero == <<0, 1>>
One == <<1, 1>>

-----------------------------------------------------------------------------
(* _score_item: greedy n-gram matcher and scorer                           *)

\* bonus_factor = 0.5 = BonusNum / BonusDen.  Scores are kept as integers in
\* units of 1 / Scale, the common denominator of r and (r*(r-1)/2)*0.5.
BonusNum == 1
BonusDen == 2
Scale == 2 * BonusDen

\* FoundLen with the candidate lengths tried shortest first
FoundLenShortestFirst(words, text, i) ==
    LET n == Len(words)
        hits == {L \in 1..(n - i) :
                    Contains(text, Join(SubSeq(words, i + 1, i + L)))}
    IN  IF hits = {} THEN 0
        ELSE CHOOSE L \in hits : \A M \in hits : L <= M

\* the for loop over L = n - i, ..., 1 with its break: the largest L whose
\* phrase " ".join(words[i : i + L]) occurs in the text, 0 when none does
FoundLen(words, text, i) ==
    LET n == Len(words)
        hits == {L \in 1..(n - i) :
                    Contains(text, Join(SubSeq(words, i + 1, i + L)))}
    IN  IF hits = {} THEN 0
        ELSE CHOOSE L \in hits : \A M \in hits : M <= L

\* the while loop, from position i with the runs and phrases found so far
RECURSIVE MatchLoop(_, _, _, _, _)
MatchLoop(words, text, i, runs, matched_phrases) ==
    IF ~(i < Len(words))
    THEN [runs |-> runs, matched_phrases |-> matched_phrases]
    ELSE LET found_len == FoundLen(words, text, i)
         IN  IF found_len > 0
             THEN MatchLoop(words, text, i + found_len,
                            Append(runs, found_len),
                            Append(matched_phrases,
                                   Join(SubSeq(words, i + 1, i + found_len))))
             ELSE MatchLoop(words, text, i + 1, runs, matched_phrases)

RECURSIVE Sum(_)
Sum(runs) == IF runs = <<>> THEN 0 ELSE Head(runs) + Sum(Tail(runs))

\* Bonus left out
BonusNone(runs) == 0

\* Scale * sum((r * (r - 1) / 2) * bonus_factor for r in runs)
RECURSIVE Bonus(_)
Bonus(runs) ==
    IF runs = <<>> THEN 0
    ELSE Head(runs) * (Head(runs) - 1) * BonusNum + Bonus(Tail(runs))

\* RawScore with the bonus subtracted instead of added
RawScoreBonusSubtracted(runs) == Scale * Sum(runs) - Bonus(runs)

\* Scale * raw_score
RawScore(runs) == Scale * Sum(runs) + Bonus(runs)

\* MaxScore normalising by the token count alone, the bonus left out
MaxScoreNoBonus(n) == Scale * n

\* Scale * max_score
MaxScore(n) == Scale * n + n * (n - 1) * BonusNum

\* max(0.0, min(1.0, raw / max)), as a fraction in lowest terms
Clamp(raw, max) ==
    IF raw > max THEN One
    ELSE IF raw < 0 THEN Zero
    ELSE Frac(raw, max)

Confidence(runs, n) ==
    IF MaxScore(n) > 0 THEN Clamp(RawScore(runs), MaxScore(n)) ELSE Zero

\* words = token_re.findall(item_str.lower())
Words(item_str) == FindAll(Lower(item_str))

\* the iterations of the while loop from position i on: the position each
\* starts at and the found_len it ends with
RECURSIVE LoopTrace(_, _, _)
LoopTrace(words, text, i) ==
    IF ~(i < Len(words)) THEN <<>>
    ELSE LET found_len == FoundLen(words, text, i)
         IN  <<[i |-> i, found_len |-> found_len]>>
                 \o LoopTrace(words, text,
                              IF found_len > 0 THEN i + found_len ELSE i + 1)

\* the matcher's result on an item: [runs, matched_phrases]
Match(item_str, text) == MatchLoop(Words(item_str), Lower(text), 0, <<>>, <<>>)

\* _score_item(item_str) on a container whose plaintext is text
ScoreItem(item_str, text) ==
    LET words == Words(item_str)
    IN  IF words = <<>>
        THEN [confidence |-> Zero, matches |-> <<>>]
        ELSE LET m == Match(item_str, text)
             IN  [confidence |-> Confidence(m.runs, Len(words)),
                  matches |-> m.matched_phrases]

-----------------------------------------------------------------------------
(* The container                                                           *)

_subjects == <<"injuries", "treatments">>
_verdicts == <<"verified", "unverified">>
Subjects == {_subjects[k] : k \in 1..Len(_subjects)}
Verdicts == {_verdicts[k] : k \in 1..Len(_verdicts)}

\* the default of validate's threshold parameter
DefaultThreshold == <<1, 2>>

\* A decoded JSON value is a record [kind, val]: a string (val its text), a
\* number, null, or a list (val the sequence of its values).
JStr(s) == [kind |-> "str", val |-> s]
JNum(n) == [kind |-> "num", val |-> n]
JNull == [kind |-> "null", val |-> 0]
JList(xs) == [kind |-> "list", val |-> xs]

\* str(n) for a natural number n
RECURSIVE IntToStr(_)
IntToStr(n) ==
    IF n < 10 THEN <<Digits[n + 1]>>
    ELSE IntToStr(n \div 10) \o <<Digits[(n % 10) + 1]>>

\* item_str = str(item)
ItemStr(item) == IF item.kind = "str" THEN item.val ELSE IntToStr(item.val)

\* Get without the () default: an absent key gives None
GetNoDefault(results, subj) == IF subj \in DOMAIN results THEN results[subj] ELSE JNull

\* self.base_results.get(subj, ())
Get(results, subj) == IF subj \in DOMAIN results THEN results[subj] ELSE JList(<<>>)

\* whether `for item in v` can start: a list or a string is iterable, a
\* number or None raises TypeError
Iterable(v) == v.kind \in {"list", "str"}

\* the items `for item in v` yields: the elements of a list, the characters
\* of a string
Elements(v) ==
    IF v.kind = "list" THEN v.val
    ELSE [k \in 1..Len(v.val) |-> JStr(<<v.val[k]>>)]

\* d[key] = value on a dict kept in insertion order: a key already present
\* keeps its place and takes the new value, a new key goes last
DictSet(d, key, value) ==
    IF \E k \in 1..Len(d) : d[k].item = key
    THEN [k \in 1..Len(d) |->
            IF d[k].item = key THEN [item |-> key, value |-> value] ELSE d[k]]
    ELSE Append(d, [item |-> key, value |-> value])

\* _set counting an item only when its key is new to the bucket
_setCountNewKeys(st, item, matches, confidence, subj, verdict) ==
    [self |-> [st.self EXCEPT ![subj][verdict] =
                    DictSet(@, item, <<confidence, matches>>)],
     match_counts |-> [st.match_counts EXCEPT ![subj][verdict] =
                    IF \E k \in 1..Len(st.self[subj][verdict]) :
                           st.self[subj][verdict][k].item = item
                    THEN @ ELSE @ + 1]]

\* _set on the container state st = [self, match_counts]
_set(st, item, matches, confidence, subj, verdict) ==
    [self |-> [st.self EXCEPT ![subj][verdict] =
                    DictSet(@, item, <<confidence, matches>>)],
     match_counts |-> [st.match_counts EXCEPT ![subj][verdict] = @ + 1]]

\* Verdict with a strict comparison against the threshold
VerdictStrict(confidence, matches, t) ==
    IF ~FracGeq(t, confidence) /\ matches # <<>> THEN "verified" ELSE "unverified"

\* Verdict without the guard on the matched phrases
VerdictNoGuard(confidence, matches, t) ==
    IF FracGeq(confidence, t) THEN "verified" ELSE "unverified"

\* the verdict of line 114
Verdict(confidence, matches, t) ==
    IF FracGeq(confidence, t) /\ matches # <<>> THEN "verified" ELSE "unverified"

\* the inner loop of validate over the items of one subject
RECURSIVE ItemLoop(_, _, _, _, _)
ItemLoop(st, items, subj, text, t) ==
    IF items = <<>> THEN st
    ELSE LET item_str == ItemStr(Head(items))
             sc == ScoreItem(item_str, text)
             verdict == Verdict(sc.confidence, sc.matches, t)
         IN  ItemLoop(_set(st, item_str, sc.matches, sc.confidence, subj, verdict),
                      Tail(items), subj, text, t)

\* the outer loop of validate; raised when a subject's value is not iterable,
\* with everything stored before that point kept
RECURSIVE SubjectLoop(_, _, _, _, _)
SubjectLoop(st, subjs, results, text, t) ==
    IF subjs = <<>>
    THEN [self |-> st.self, match_counts |-> st.match_counts, raised |-> FALSE]
    ELSE LET v == Get(results, Head(subjs))
         IN  IF ~Iterable(v)
             THEN [self |-> st.self, match_counts |-> st.match_counts,
                   raised |-> TRUE]
             ELSE SubjectLoop(ItemLoop(st, Elements(v), Head(subjs), text, t),
                              Tail(subjs), results, text, t)

\* ValidationDict.__init__
EmptySelf == [s \in Subjects |-> [v \in Verdicts |-> <<>>]]
ZeroCounts == [s \in Subjects |-> [v \in Verdicts |-> 0]]

-----------------------------------------------------------------------------
(* Inputs                                                                  *)

\* all strings over chars of at most k characters
StringsUpTo(chars, k) == UNION {[1..m -> chars] : m \in 0..k}

\* Spec: explicit thresholds, one inside [0,1] and one outside it, beside
\* the default.  SpecScore: the ends and the middle of [0,1].
ExplicitThresholds == {<<0, 1>>, <<3, 2>>}
ScoreThresholds == {<<0, 1>>, <<1, 2>>, <<1, 1>>}

\* Spec: a source text, a few claims, and the category values built of them
Plaintexts == {<<"A", " ", "b">>}
Items == {JStr(<<"a", " ", "b">>), JStr(<<"A", "-", "c", " ", "b">>), JNum(1)}
CategoryValues ==
    {JList(xs) : xs \in UNION {[1..m -> Items] : m \in 0..MaxItems}}
    \cup {JStr(<<"a", "b">>), JNum(7), JNull}
BaseResults ==
    UNION {[D -> CategoryValues] : D \in SUBSET Subjects}

\* SpecScore: every claim and every source text over ScoreChars up to the
\* bounds, and a few longer ones with three tokens
ScoreChars == {"a", "B", " ", "-"}
LongClaims == {<<"a", " ", "b", " ", "a">>, <<"a", " ", "B", "-", "a">>,
               <<"A", "-", "c", " ", "b">>, <<"c", " ", "a", " ", "b">>,
               <<"a", " ", "a", " ", "a">>}
LongSources == {<<"a", " ", "b", " ", "a">>, <<"a", "b", " ", "1">>}
ScoreClaims == StringsUpTo(ScoreChars, MaxClaimLen) \cup LongClaims
ScoreSources == StringsUpTo(ScoreChars, MaxSrcLen) \cup LongSources

\* SpecRuns: the run lists the matcher can leave for a claim of n tokens:
\* runs of at least one token that together cover at most n tokens
Decompositions(n) ==
    {rs \in UNION {[1..m -> 1..n] : m \in 0..n} : Sum(rs) <= n}

\* no scoring done yet
NotScored == [runs |-> <<>>, confidence |-> Zero, scored |-> FALSE]
IdleScorer == [n |-> 0, last |-> NotScored, before |-> NotScored]

-----------------------------------------------------------------------------
(* Preprocessor: documents are sequences of the input's page numbers       *)

Min(a, b) == IF a < b THEN a ELSE b
Max(a, b) == IF a > b THEN a ELSE b

\* the input document of page_count pages, pages numbered from 1
SrcDoc(page_count) == [k \in 1..page_count |-> k]

\* out.insert_pdf(src, from_page, to_page) into an empty document: the
\* zero-based pages from_page..to_page inclusive; from_page is brought into
\* 0..count-1, a negative to_page means the last page, to_page is capped at
\* the last page, and from_page > to_page copies in reverse order
InsertPdf(src, from_page, to_page) ==
    LET count == Len(src)
        fp == Min(Max(from_page, 0), count - 1)
        tp == IF to_page < 0 THEN count - 1 ELSE Min(to_page, count - 1)
    IN  IF fp <= tp
        THEN [k \in 1..(tp - fp + 1) |-> src[fp + k]]
        ELSE [k \in 1..(fp - tp + 1) |-> src[fp + 2 - k]]

\* _clone_doc: the document that is saved under the suffix
_clone_doc(pp, from_page, to_page, suffix) ==
    [suffix |-> suffix,
     pages |-> InsertPdf(SrcDoc(pp.page_count), from_page, to_page)]

\* _trim_doc: the clone steps it makes
_trim_doc(pp) ==
    <<_clone_doc(pp, pp.trim_start - 1, pp.trim_end,
                 [name |-> "_trim", from |-> 0, to |-> 0])>>

\* _split_doc: the clone steps it makes, prev starting at trim_start - 1
RECURSIVE SplitLoop(_, _, _)
SplitLoop(pp, prev, k) ==
    IF k > Len(pp.split_indices) THEN <<>>
    ELSE LET curr == pp.split_indices[k]
         IN  <<_clone_doc(pp, prev, curr - 1,
                          [name |-> "_split", from |-> prev + 1, to |-> curr])>>
                 \o SplitLoop(pp, curr, k + 1)

_split_doc(pp) == SplitLoop(pp, pp.trim_start - 1, 1)

_trim_range_exists(pp) == pp.trim_start > 0 \/ pp.trim_end > 0

\* truth value of keep_original: "True"/"False" stand for the booleans,
\* "yes"/"no" are the strings main.py passes on; every non-empty string is true
Truthy(keep_original) == keep_original # "False"

KeepOriginalValues == {"yes", "no", "True", "False"}

SplitIndices(page_count) ==
    {sp \in UNION {[1..m -> 1..page_count] : m \in 0..MaxSplits} :
        \A k \in 1..(Len(sp) - 1) : sp[k] < sp[k + 1]}

NoPreprocessor ==
    [page_count |-> 0, trim_start |-> 0, trim_end |-> -1,
     split_indices |-> <<>>, keep_original |-> "yes"]
NoDisk == [original |-> FALSE, saved |-> <<>>]

\* retry: nothing decorated, nothing called
NoRetry == [max_retries |-> 0, attempts |-> 0]
NoWrapper == [active |-> FALSE, tries |-> 0, finished |-> <<>>]

-----------------------------------------------------------------------------
(* The state machine                                                       *)

Init ==
    /\ plaintext \in Plaintexts
    /\ base_results \in BaseResults
    /\ self = EmptySelf
    /\ match_counts = ZeroCounts
    /\ threshold = DefaultThreshold
    /\ outcome = "none"
    /\ calls = 0
    /\ scorer = IdleScorer
    /\ preprocessor = NoPreprocessor
    /\ disk = NoDisk
    /\ retry = NoRetry
    /\ wrapper = NoWrapper

InitScore ==
    /\ plaintext \in ScoreSources
    /\ \E claim \in ScoreClaims :
            base_results = [s \in {"injuries"} |-> JList(<<JStr(claim)>>)]
    /\ self = EmptySelf
    /\ match_counts = ZeroCounts
    /\ threshold = DefaultThreshold
    /\ outcome = "none"
    /\ calls = 0
    /\ scorer = IdleScorer
    /\ preprocessor = NoPreprocessor
    /\ disk = NoDisk
    /\ retry = NoRetry
    /\ wrapper = NoWrapper

\* validate(threshold = t)
Validate(t) ==
    /\ calls < MaxCalls
    /\ \E r \in {SubjectLoop([self |-> self, match_counts |-> match_counts],
                            _subjects, base_results, plaintext, t)} :
           /\ self' = r.self
           /\ match_counts' = r.match_counts
           /\ outcome' = IF r.raised THEN "raised" ELSE "returned"
    /\ threshold' = t
    /\ calls' = calls + 1
    /\ UNCHANGED <<plaintext, base_results, scorer, preprocessor, disk,
                   retry, wrapper>>

\* validate() as Analyzer.analyze calls it
ValidateDefault == Validate(DefaultThreshold)

\* validate(threshold = t) with an explicit threshold
ValidateWith == \E t \in ExplicitThresholds : Validate(t)

Next == ValidateDefault \/ ValidateWith

Spec == Init /\ [][Next]_vars

\* one validate call on a fresh container, for every claim and source text
ValidateOnce == \E t \in ScoreThresholds : calls = 0 /\ Validate(t)

NextScore == ValidateOnce

SpecScore == InitScore /\ [][NextScore]_vars

\* the scoring step alone, on a claim of n tokens
InitRuns ==
    /\ plaintext = <<>>
    /\ base_results = <<>>
    /\ self = EmptySelf
    /\ match_counts = ZeroCounts
    /\ threshold = DefaultThreshold
    /\ outcome = "none"
    /\ calls = 0
    /\ \E n \in 1..MaxTokens :
           scorer = [n |-> n, last |-> NotScored, before |-> NotScored]
    /\ preprocessor = NoPreprocessor
    /\ disk = NoDisk
    /\ retry = NoRetry
    /\ wrapper = NoWrapper

\* lines 89-98 on one run list of the claim
ScoreRuns ==
    /\ \E runs \in Decompositions(scorer.n) :
           scorer' = [n |-> scorer.n,
                      last |-> [runs |-> runs,
                                confidence |-> Confidence(runs, scorer.n),
                                scored |-> TRUE],
                      before |-> scorer.last]
    /\ UNCHANGED <<plaintext, base_results, self, match_counts, threshold,
                   outcome, calls, preprocessor, disk, retry, wrapper>>

NextRuns == ScoreRuns

SpecRuns == InitRuns /\ [][NextRuns]_vars

\* the preprocess command on a document of at least one page
InitTrim ==
    /\ plaintext = <<>>
    /\ base_results = <<>>
    /\ self = EmptySelf
    /\ match_counts = ZeroCounts
    /\ threshold = DefaultThreshold
    /\ outcome = "none"
    /\ calls = 0
    /\ scorer = IdleScorer
    /\ \E page_count \in 1..MaxPages :
       \E trim_start \in 0..page_count :
       \E trim_end \in (-1)..page_count :
       \E split_indices \in SplitIndices(page_count) :
       \E keep_original \in KeepOriginalValues :
           preprocessor = [page_count |-> page_count,
                           trim_start |-> trim_start,
                           trim_end |-> trim_end,
                           split_indices |-> split_indices,
                           keep_original |-> keep_original]
    /\ disk = [original |-> TRUE, saved |-> <<>>]
    /\ retry = NoRetry
    /\ wrapper = NoWrapper

\* preprocess(): the first `done` clone steps save their document; a step
\* that raises ends the call before the original is removed
Preprocess ==
    /\ outcome = "none"
    /\ LET should_trim == _trim_range_exists(preprocessor)
           steps == (IF preprocessor.split_indices # <<>>
                     THEN _split_doc(preprocessor) ELSE <<>>)
                    \o (IF should_trim THEN _trim_doc(preprocessor) ELSE <<>>)
       IN  IF ~(preprocessor.split_indices # <<>> \/ should_trim)
           THEN /\ outcome' = "returned"
                /\ disk' = disk
           ELSE \E done \in 0..Len(steps) :
                    IF done < Len(steps)
                    THEN /\ outcome' = "raised"
                         /\ disk' = [disk EXCEPT !.saved = SubSeq(steps, 1, done)]
                    ELSE /\ outcome' = "returned"
                         /\ disk' = [original |->
                                         IF ~Truthy(preprocessor.keep_original)
                                         THEN FALSE ELSE disk.original,
                                     saved |-> steps]
    /\ UNCHANGED <<plaintext, base_results, self, match_counts, threshold,
                   calls, scorer, preprocessor, retry, wrapper>>

NextTrim == Preprocess

SpecTrim == InitTrim /\ [][NextTrim]_vars

\* a function decorated with retry(max_retries=k); attempts = 0 is set once,
\* when retry(...) is evaluated
InitRetry ==
    /\ plaintext = <<>>
    /\ base_results = <<>>
    /\ self = EmptySelf
    /\ match_counts = ZeroCounts
    /\ threshold = DefaultThreshold
    /\ outcome = "none"
    /\ calls = 0
    /\ scorer = IdleScorer
    /\ preprocessor = NoPreprocessor
    /\ disk = NoDisk
    /\ \E max_retries \in 0..MaxRetries :
           retry = [max_retries |-> max_retries, attempts |-> 0]
    /\ wrapper = NoWrapper

RetryUnchanged ==
    UNCHANGED <<plaintext, base_results, self, match_counts, threshold,
                outcome, calls, scorer, preprocessor, disk>>

\* a caller calls the wrapped function
CallWrapper ==
    /\ ~wrapper.active
    /\ Len(wrapper.finished) < MaxWrapperCalls
    /\ wrapper' = [wrapper EXCEPT !.active = TRUE, !.tries = 0]
    /\ UNCHANGED retry
    /\ RetryUnchanged

\* try: return func(*args, **kwargs), and func returns
FuncReturns ==
    /\ wrapper.active
    /\ wrapper' = [active |-> FALSE,
                   tries |-> wrapper.tries + 1,
                   finished |-> Append(wrapper.finished,
                                       [tries |-> wrapper.tries + 1,
                                        result |-> "returned"])]
    /\ UNCHANGED retry
    /\ RetryUnchanged

\* func raises: the except clause retries through wrapper(...) while
\* attempts <= max_retries, and re-raises otherwise
FuncRaises ==
    /\ wrapper.active
    /\ IF retry.attempts <= retry.max_retries
       THEN /\ retry' = [retry EXCEPT !.attempts = retry.attempts + 1]
            /\ wrapper' = [wrapper EXCEPT !.tries = wrapper.tries + 1]
       ELSE /\ retry' = retry
            /\ wrapper' = [active |-> FALSE,
                           tries |-> wrapper.tries + 1,
                           finished |-> Append(wrapper.finished,
                                               [tries |-> wrapper.tries + 1,
                                                result |-> "raised"])]
    /\ RetryUnchanged

NextRetry == CallWrapper \/ FuncReturns \/ FuncRaises

SpecRetry == InitRetry /\ [][NextRetry]_vars

-----------------------------------------------------------------------------
(* Properties                                                              *)

\* the claims structure has the shape the extractor's schema promises: every
\* category present is a list of strings
WellFormed(results) ==
    \A c \in DOMAIN results :
        /\ results[c].kind = "list"
        /\ \A k \in 1..Len(results[c].val) : results[c].val[k].kind = "str"

\* the input claim list of category c, as validate iterates it
InputItems(c) == Elements(Get(base_results, c))

\* the positions of bucket [c][v] that hold an entry for item_str
EntriesFor(c, v, item_str) ==
    {k \in 1..Len(self[c][v]) : self[c][v][k].item = item_str}

NothingStored == self = EmptySelf /\ match_counts = ZeroCounts

\* C1: after validate returns, match_counts[c][v] equals the number of
\* entries of bucket [c][v], for every category, verdict and claim list
\* (stated for one call on well-formed claims).
C1_CountsEqualBucketSizes ==
    (calls = 1 /\ outcome = "returned" /\ WellFormed(base_results)) =>
        \A c \in Subjects : \A v \in Verdicts :
            match_counts[c][v] = Len(self[c][v])

\* C2: every input claim occurrence has its own entry in exactly one verdict
\* bucket of its category: each claim is found in exactly one bucket, and a
\* category holds as many entries as its input list has positions.
C2_EveryOccurrenceInOneBucket ==
    (calls = 1 /\ outcome = "returned" /\ WellFormed(base_results)) =>
        \A c \in Subjects :
            /\ \A k \in 1..Len(InputItems(c)) :
                   Cardinality({v \in Verdicts :
                       EntriesFor(c, v, ItemStr(InputItems(c)[k])) # {}}) = 1
            /\ Len(self[c]["verified"]) + Len(self[c]["unverified"])
                   = Len(InputItems(c))

\* C3: after one validate call on a fresh container, the counts of a category
\* summed over both verdicts equal the length of its input list (0 when the
\* category key is absent).
C3_CountsSumToInputLength ==
    (calls = 1 /\ outcome = "returned") =>
        \A c \in Subjects :
            match_counts[c]["verified"] + match_counts[c]["unverified"]
                = IF c \in DOMAIN base_results
                  THEN Len(base_results[c].val) ELSE 0

C3_Witness ==
    /\ calls = 1 /\ outcome = "returned"
    /\ "treatments" \notin DOMAIN base_results
    /\ "injuries" \in DOMAIN base_results
    /\ base_results["injuries"].kind = "list"
    /\ Len(base_results["injuries"].val) = 2
    /\ base_results["injuries"].val[1] = base_results["injuries"].val[2]
    /\ match_counts["injuries"]["verified"]
           + match_counts["injuries"]["unverified"] = 2
    /\ match_counts["treatments"]["verified"]
           + match_counts["treatments"]["unverified"] = 0

\* C4: every stored confidence lies in [0,1], and the run decomposition the
\* matcher produces for the claim has 0 <= raw_score <= max_score.
C4_ConfidenceInUnitInterval ==
    \A c \in Subjects : \A v \in Verdicts : \A k \in 1..Len(self[c][v]) :
        LET e == self[c][v][k]
            confidence == e.value[1]
            runs == Match(e.item, plaintext).runs
            n == Len(Words(e.item))
        IN  /\ confidence[2] > 0
            /\ 0 <= confidence[1] /\ confidence[1] <= confidence[2]
            /\ 0 <= RawScore(runs) /\ RawScore(runs) <= MaxScore(n)

C4_Witness ==
    /\ calls = 1
    /\ \E c \in Subjects : \E v \in Verdicts : \E k \in 1..Len(self[c][v]) :
        LET e == self[c][v][k]
        IN  /\ Match(e.item, plaintext).runs = <<2, 1>>
            /\ Len(Words(e.item)) = 3
            /\ e.value[1] = <<7, 9>>

C6_FullPhraseScoresOne ==
    calls = 1 =>
        \A c \in DOMAIN base_results : \A k \in 1..Len(InputItems(c)) :
            LET item_str == ItemStr(InputItems(c)[k])
                words == Words(item_str)
            IN  (Len(words) >= 1 /\ Contains(Lower(plaintext), Join(words))) =>
                    /\ Match(item_str, plaintext).runs = <<Len(words)>>
                    /\ \E v \in Verdicts : \E j \in 1..Len(self[c][v]) :
                           self[c][v][j] = [item |-> item_str,
                                            value |-> <<One, <<Join(words)>>>>]
                    /\ (FracGeq(threshold, Zero) /\ FracGeq(One, threshold)) =>
                           /\ EntriesFor(c, "verified", item_str) # {}
                           /\ EntriesFor(c, "unverified", item_str) = {}

C6_Witness ==
    /\ calls = 1 /\ threshold = One
    /\ \E c \in DOMAIN base_results : \E j \in 1..Len(self[c]["verified"]) :
        LET e == self[c]["verified"][j]
        IN  /\ Len(Words(e.item)) = 2
            /\ Contains(Lower(plaintext), Join(Words(e.item)))
            /\ e.value = <<One, <<Join(Words(e.item))>>>>

C8_MalformedInputRejected ==
    (calls = 1 /\ ~WellFormed(base_results)) =>
        (outcome = "raised" /\ NothingStored)

\* C9: a validate call whose threshold lies outside [0,1] is rejected with an
\* error before any claim is processed: no entry is stored, no count is
\* incremented.
C9_InvalidThresholdRejected ==
    (calls = 1 /\ ~(FracGeq(threshold, Zero) /\ FracGeq(One, threshold))) =>
        (outcome = "raised" /\ NothingStored)

\* C10: a validate call that ends with an error leaves the report and the
\* counts as they were before it (for the first call: empty and zero).
C10_NoPartialReportOnError ==
    (calls = 1 /\ outcome = "raised") => NothingStored

\* the verdict validate gives item_str at the threshold of the last call
VerdictOf(item_str) ==
    LET sc == ScoreItem(item_str, plaintext)
    IN  Verdict(sc.confidence, sc.matches, threshold)

\* C12: within every bucket the entries follow the input order: when the
\* claim at position j precedes the claim at position k in a category's list
\* and both get the same verdict, the entry of the first precedes the entry
\* of the second in that bucket, also when the two carry the same text.
C12_BucketOrderFollowsInput ==
    (calls = 1 /\ outcome = "returned" /\ WellFormed(base_results)) =>
        \A c \in Subjects :
            \A j \in 1..Len(InputItems(c)) : \A k \in 1..Len(InputItems(c)) :
                LET x == ItemStr(InputItems(c)[j])
                    y == ItemStr(InputItems(c)[k])
                    b == self[c][VerdictOf(x)]
                IN  (j < k /\ VerdictOf(x) = VerdictOf(y)) =>
                        \E p \in 1..Len(b) : \E q \in 1..Len(b) :
                            p < q /\ b[p].item = x /\ b[q].item = y

\* C15: an empty claim list and an absent category key leave both buckets of
\* that category empty and its counts 0, and do not make validate raise (a
\* raise is due to another category's value); every report has both verdict
\* buckets for both categories.
C15_EmptyOrAbsentCategory ==
    /\ DOMAIN self = Subjects
    /\ \A c \in Subjects : DOMAIN self[c] = Verdicts
    /\ calls >= 1 =>
          \A c \in Subjects :
              (c \notin DOMAIN base_results \/ base_results[c] = JList(<<>>)) =>
                  /\ \A v \in Verdicts :
                         self[c][v] = <<>> /\ match_counts[c][v] = 0
                  /\ outcome = "raised" =>
                         \E d \in DOMAIN base_results \ {c} :
                             base_results[d].kind \in {"num", "null"}

C15_Witness ==
    /\ calls = 1 /\ outcome = "returned"
    /\ "injuries" \notin DOMAIN base_results
    /\ "treatments" \in DOMAIN base_results
    /\ base_results["treatments"] = JList(<<>>)
    /\ self = EmptySelf /\ match_counts = ZeroCounts

\* C16: a second validate call on the same container with the same inputs
\* leaves the report and match_counts as the first call left them.
C16_SecondCallChangesNothing ==
    [][(calls = 1 /\ calls' = 2 /\ outcome = "returned"
            /\ threshold' = threshold /\ WellFormed(base_results))
        => (self' = self /\ match_counts' = match_counts)]_vars

\* B is A with two of its runs replaced by one run of their joint length
IsMerge(A, B) ==
    \E i \in 1..Len(A) : \E j \in 1..Len(A) :
        /\ i < j
        /\ B = [k \in 1..(Len(A) - 1) |->
                  IF k = i THEN A[i] + A[j] ELSE IF k < j THEN A[k] ELSE A[k + 1]]

\* C13: for a fixed claim length n, replacing two runs of lengths a and b
\* by one run of length a + b gives a strictly greater confidence.
C13_MergingRunsRaisesConfidence ==
    (scorer.before.scored /\ IsMerge(scorer.before.runs, scorer.last.runs)) =>
        scorer.last.confidence[1] * scorer.before.confidence[2]
            > scorer.before.confidence[1] * scorer.last.confidence[2]

C13_Witness ==
    /\ scorer.n = 3
    /\ scorer.before.scored
    /\ scorer.before.runs = <<1, 1, 1>>
    /\ scorer.last.runs = <<2, 1>>
    /\ scorer.before.confidence = <<2, 3>>
    /\ scorer.last.confidence = <<7, 9>>

Dominates(A, B) ==
    /\ Len(B) <= Len(A)
    /\ \A k \in 1..Len(B) : B[k] <= A[k]

C17_TrimWritesStartThroughEnd ==
    LET pp == preprocessor
    IN  (outcome = "returned"
            /\ 1 <= pp.trim_start /\ pp.trim_start <= pp.trim_end
            /\ pp.trim_end <= pp.page_count) =>
            \E k \in 1..Len(disk.saved) :
                /\ disk.saved[k].suffix.name = "_trim"
                /\ disk.saved[k].pages =
                       [i \in 1..(pp.trim_end - pp.trim_start + 1) |->
                           pp.trim_start + i - 1]

\* the phrase of the L tokens from zero-based position i
PhraseAt(words, i, L) == Join(SubSeq(words, i + 1, i + L))

\* the recorded runs of a loop trace, as [i, found_len], in order
RECURSIVE Recorded(_)
Recorded(tr) ==
    IF tr = <<>> THEN <<>>
    ELSE (IF Head(tr).found_len > 0 THEN <<Head(tr)>> ELSE <<>>)
             \o Recorded(Tail(tr))

\* C18: the matcher starts at i = 0; at each position i < n it records the
\* largest L in 1..n-i whose phrase is a substring of the lower-cased source
\* and moves to i + L, or records nothing and moves to i + 1 when there is
\* none; the recorded runs cover disjoint positions in increasing order,
\* their lengths sum to at most n, the loop makes at most n iterations, and
\* the stored phrases are those of the recorded runs, in order.
C18_GreedyLongestFirstSinglePass ==
    (calls = 1 /\ outcome = "returned") =>
        \A c \in DOMAIN base_results : \A k \in 1..Len(InputItems(c)) :
            LET item_str == ItemStr(InputItems(c)[k])
                words == Words(item_str)
                n == Len(words)
                text == Lower(plaintext)
                tr == LoopTrace(words, text, 0)
                rec == Recorded(tr)
                m == Match(item_str, plaintext)
                Step(t) == IF t.found_len > 0 THEN t.found_len ELSE 1
            IN  /\ Len(tr) <= n
                /\ n >= 1 => (tr # <<>> /\ tr[1].i = 0)
                /\ \A j \in 1..Len(tr) :
                       LET i == tr[j].i
                           L == tr[j].found_len
                       IN  /\ 0 <= i /\ i < n
                           /\ L \in 0..(n - i)
                           /\ L > 0 => Contains(text, PhraseAt(words, i, L))
                           /\ \A M \in (L + 1)..(n - i) :
                                  ~Contains(text, PhraseAt(words, i, M))
                           /\ IF j < Len(tr)
                              THEN tr[j + 1].i = i + Step(tr[j])
                              ELSE i + Step(tr[j]) = n
                /\ \A p \in 1..Len(rec) : \A q \in 1..Len(rec) :
                       p < q => rec[p].i + rec[p].found_len <= rec[q].i
                /\ m.runs = [p \in 1..Len(rec) |-> rec[p].found_len]
                /\ Sum(m.runs) <= n
                /\ m.matched_phrases =
                       [p \in 1..Len(rec) |->
                           PhraseAt(words, rec[p].i, rec[p].found_len)]
                /\ \E v \in Verdicts : \E e \in 1..Len(self[c][v]) :
                       /\ self[c][v][e].item = item_str
                       /\ self[c][v][e].value[2] = m.matched_phrases

C18_Witness ==
    /\ calls = 1 /\ outcome = "returned"
    /\ plaintext = <<"a", " ", "B">>
    /\ \E v \in Verdicts : \E e \in 1..Len(self["injuries"][v]) :
           /\ self["injuries"][v][e].item = <<"c", " ", "a", " ", "b">>
           /\ self["injuries"][v][e].value[2] = << <<"a", " ", "b">> >>
           /\ LoopTrace(Words(self["injuries"][v][e].item), Lower(plaintext), 0)
                  = <<[i |-> 0, found_len |-> 0], [i |-> 1, found_len |-> 2]>>

\* the claims given to validate: their tokens and their recorded runs
RunsOfClaims ==
    UNION {{[words |-> Words(ItemStr(InputItems(c)[k])),
             rec |-> Recorded(LoopTrace(Words(ItemStr(InputItems(c)[k])),
                                        Lower(plaintext), 0))] :
               k \in 1..Len(InputItems(c))} :
           c \in DOMAIN base_results}

\* C19 as stated: a run covering token positions i..j can be extended on
\* neither side: neither the phrase of tokens i-1..j nor that of tokens
\* i..j+1 is a substring of the lower-cased source.
C19_RunsAreMaximal ==
    (calls = 1 /\ outcome = "returned") =>
        \A cl \in RunsOfClaims : \A p \in 1..Len(cl.rec) :
            LET i == cl.rec[p].i
                L == cl.rec[p].found_len
            IN  /\ i >= 1 =>
                       ~Contains(Lower(plaintext), PhraseAt(cl.words, i - 1, L + 1))
                /\ i + L < Len(cl.words) =>
                       ~Contains(Lower(plaintext), PhraseAt(cl.words, i, L + 1))

\* token position t (zero-based) lies in a recorded run
InRun(rec, t) ==
    \E q \in 1..Len(rec) : rec[q].i <= t /\ t < rec[q].i + rec[q].found_len

\* C19 amended: a run covering i..j cannot be extended to the right (the
\* phrase of tokens i..j+1 is not a substring of the lower-cased source),
\* and cannot be extended to the left over a token that is in no run; the
\* phrase of tokens i-1..j may be a substring when token i-1 belongs to the
\* preceding run.
C19_RunsAreMaximalToTheRight ==
    (calls = 1 /\ outcome = "returned") =>
        \A cl \in RunsOfClaims : \A p \in 1..Len(cl.rec) :
            LET i == cl.rec[p].i
                L == cl.rec[p].found_len
            IN  /\ (i >= 1 /\ ~InRun(cl.rec, i - 1)) =>
                       ~Contains(Lower(plaintext), PhraseAt(cl.words, i - 1, L + 1))
                /\ i + L < Len(cl.words) =>
                       ~Contains(Lower(plaintext), PhraseAt(cl.words, i, L + 1))

C19_Witness ==
    /\ calls = 1 /\ outcome = "returned"
    /\ plaintext = <<"a", " ", "a">>
    /\ \E cl \in RunsOfClaims :
           /\ cl.words = << <<"a">>, <<"a">>, <<"a">> >>
           /\ cl.rec = <<[i |-> 0, found_len |-> 2], [i |-> 2, found_len |-> 1]>>
           /\ Contains(Lower(plaintext), PhraseAt(cl.words, 1, 2))
    /\ self["injuries"]["verified"] # <<>>

\* phrase occurs in text character for character, at any offset
IsCharSubstring(text, phrase) ==
    \E offset \in 0..(Len(text) - Len(phrase)) :
        \A j \in 1..Len(phrase) : text[offset + j] = phrase[j]

ChoseNotToKeep(pp) == pp.keep_original \in {"no", "False"}

\* C21: after preprocess the original file is gone iff the user chose not
\* to keep it, a split or a trim was requested, and every clone step saved
\* its document; otherwise the original still exists.
C21_OriginalRemovedIffNotKept ==
    outcome # "none" =>
        (~disk.original <=>
            /\ ChoseNotToKeep(preprocessor)
            /\ (preprocessor.split_indices # <<>>
                    \/ _trim_range_exists(preprocessor))
            /\ outcome = "returned")

\* C22: every call of the wrapped function that ends with the exception
\* has run the function exactly max_retries + 1 times, whatever failed in
\* earlier calls.
C22_FailingCallTriedKPlusOneTimes ==
    \A j \in 1..Len(wrapper.finished) :
        wrapper.finished[j].result = "raised" =>
            wrapper.finished[j].tries = retry.max_retries + 1

\* C23: a claim with at least one word character whose lower-cased string
\* is a substring of the lower-cased source is stored as verified with
\* confidence 1 at the default threshold, whatever separates its words.
C23_VerbatimClaimScoresOne ==
    (calls = 1 /\ outcome = "returned" /\ threshold = DefaultThreshold) =>
        \A c \in DOMAIN base_results : \A k \in 1..Len(InputItems(c)) :
            LET item_str == ItemStr(InputItems(c)[k])
            IN  (Words(item_str) # <<>>
                    /\ IsCharSubstring(Lower(plaintext), Lower(item_str))) =>
                    \E e \in 1..Len(self[c]["verified"]) :
                        /\ self[c]["verified"][e].item = item_str
                        /\ self[c]["verified"][e].value[1] = One

====
